---- MODULE Spec2Model ----
(***************************************************************************)
(* A model of ballot_assigner.py: one BallotAssigner instance, the two     *)
(* input files it reads, the output directory it writes, and the calls     *)
(* made on it, either one method at a time or through                      *)
(* run_complete_assignment.                                                *)
(***************************************************************************)
EXTENDS Integers, Sequences, FiniteSets, TLC

\* ------------------------------------------------------------------ bounds
\* Longest identifier file (records) and recipient file (lines) considered.
MaxBallots == 2
MaxLines == 2
\* Calls made on the instance in one behaviour.
MaxCalls == 2

\* ------------------------------------------------------------- text model
\* A recipient name is a sequence of characters; the characters that occur.
Alnum == {"A"}
Kept == {" ", "-", "_"}
Whitespace == {" "}

Min(a, b) == IF a < b THEN a ELSE b

\* Python's s[start:end] on a list, 0-based, end exclusive, clamped.
Slice(s, start, end) == SubSeq(s, Min(start, Len(s)) + 1, Min(end, Len(s)))

RECURSIVE rstrip(_)
rstrip(s) ==
    IF s # <<>> /\ s[Len(s)] \in Whitespace THEN rstrip(SubSeq(s, 1, Len(s) - 1)) ELSE s

RECURSIVE lstrip(_)
lstrip(s) ==
    IF s # <<>> /\ s[1] \in Whitespace THEN lstrip(Tail(s)) ELSE s

strip(s) == lstrip(rstrip(s))

\* [line.strip() for line in file if line.strip()]
RECURSIVE StripLines(_)
StripLines(lines) ==
    IF lines = <<>> THEN <<>>
    ELSE IF strip(Head(lines)) = <<>> THEN StripLines(Tail(lines))
    ELSE <<strip(Head(lines))>> \o StripLines(Tail(lines))

\* "".join(c for c in verifier if c.isalnum() or c in (' ', '-', '_'))
RECURSIVE KeepSafe(_)
KeepSafe(s) ==
    IF s = <<>> THEN <<>>
    ELSE IF Head(s) \in Alnum \/ Head(s) \in Kept THEN <<Head(s)>> \o KeepSafe(Tail(s))
    ELSE KeepSafe(Tail(s))

safe_verifier_name(verifier) == <<"Assigned_ballots_">> \o rstrip(KeepSafe(verifier))

filename(output_directory, verifier) ==
    <<output_directory, "/">> \o safe_verifier_name(verifier) \o <<".csv">>

\* str(ballot_id), as csv.writer and ', '.join(map(str, ...)) render it.
str(ballot_id) == ToString(ballot_id)

header == <<
    "id", "dominio", "unidad_educativa", "grado", "contador", "1", "2", "3", "4", "5", "6",
    "7", "8", "9", "10", "11", "12", "13", "14", "15", "16", "17", "18", "19", "20", "21",
    "21.1", "21.2", "21.3", "21.4", "21.5", "21.6", "21.7", "21.8", "21.9", "22", "23", "24",
    "25", "26", "27", "28", "29", "30", "31", "31.1", "31.2", "31.3", "31.4", "31.5", "31.6",
    "32", "33", "34", "35", "36", "37", "38", "39", "40", "41", "42", "43", "44", "45", "46",
    "46.1", "47", "48", "49", "50", "51", "52", "53", "54", "55", "56", "57", "58", "59", "60",
    "61", "62", "63", "64", "65", "66", "67", "68", "69", "70", "71", "72", "73", "74", "75",
    "76", "77", "78", "79", "80", "81", "82", "83", "84", "85", "85.1", "85.2", "85.3", "85.4",
    "85.5", "85.6", "85.7", "85.8", "85.9", "85.10", "85.11", "85.12", "85.13", "86", "86.1",
    "86.2", "86.3", "86.4", "87", "87.1", "87.2", "87.3", "87.4", "88", "88.1", "88.2", "88.3",
    "88.4", "89", "89.1", "89.2", "89.3", "89.4", "90", "90.1", "90.2", "90.3", "90.4", "90.5",
    "90.6", "90.7", "90.8", "90.9", "90.10", "90.11", "90.12", "90.13", "90.14", "90.15",
    "90.16", "90.17", "90.18", "90.19", "91", "92", "93", "94", "95", "96", "97", "98", "98.1",
    "98.2", "98.3", "99", "100", "101", "102", "103", "103.1", "103.2", "104", "105", "106",
    "107", "108", "109", "110", "111", "112", "113", "114", "115", "116", "117", "118", "119",
    "120", "121", "122", "123", "124", "125", "126", "127", "128", "129", "129.1", "129.2",
    "129.3", "129.4", "129.5", "129.6", "129.7", "129.8", "129.9", "129.10"
>>

\* ----------------------------------------------------------- input files
\* Identifier files: k distinct identifiers, or the first one repeated last.
DistinctIds(k) == [i \in 1..k |-> i]
RepeatedIds(k) == [i \in 1..k |-> IF i = k THEN 1 ELSE i]

CsvFiles ==
    {[exists |-> FALSE, rows |-> <<>>]}
    \cup {[exists |-> TRUE, rows |-> DistinctIds(k)] : k \in 0..MaxBallots}
    \cup {[exists |-> TRUE, rows |-> RepeatedIds(k)] : k \in 2..MaxBallots}

\* Recipient names with different safe names: "A", "AA", "AAA", ...
Name(i) == [j \in 1..i |-> "A"]

\* Recipient files of k lines: k different names; the first name again as the
\* last line; a last line that differs from the first only in characters the
\* file name drops; a blank first line and blanks around the last name.
DistinctLines(k) == [i \in 1..k |-> Name(i)]
RepeatedLines(k) == [i \in 1..k |-> IF i = k THEN Name(1) ELSE Name(i)]
CollidingLines(k) == [i \in 1..k |-> IF i = k THEN Name(1) \o <<" ", "!">> ELSE Name(i)]
BlankLines(k) ==
    [i \in 1..k |-> IF i = 1 THEN <<" ">>
                    ELSE IF i = k THEN <<" ">> \o Name(i - 1) \o <<" ">>
                    ELSE Name(i - 1)]

TxtFiles ==
    {[exists |-> FALSE, lines |-> <<>>]}
    \cup {[exists |-> TRUE, lines |-> DistinctLines(k)] : k \in 0..MaxLines}
    \cup {[exists |-> TRUE, lines |-> RepeatedLines(k)] : k \in 2..MaxLines}
    \cup {[exists |-> TRUE, lines |-> CollidingLines(k)] : k \in 2..MaxLines}
    \cup {[exists |-> TRUE, lines |-> BlankLines(k)] : k \in 1..MaxLines}

OutputDirectory == "output"

\* ------------------------------------------------------------------ state
VARIABLES
    csv_file,            \* the file at ballots_csv_path
    txt_file,            \* the file at verifiers_txt_path
    ballot_ids,          \* self.ballot_ids
    verifiers,           \* self.verifiers
    assignment_results,  \* self.assignment_results: a dict, as its items in key order
    dir_exists,          \* whether output_directory exists
    disk,                \* the files under output_directory: path -> rows
    last,                \* the most recent method call and what it did
    run,                 \* run_complete_assignment: position, stages run, outcome
    calls                \* calls made on the instance so far

vars == <<csv_file, txt_file, ballot_ids, verifiers, assignment_results,
          dir_exists, disk, last, run, calls>>

Self == [ballot_ids |-> ballot_ids, verifiers |-> verifiers,
         assignment_results |-> assignment_results]

Fs == [dir_exists |-> dir_exists, disk |-> disk]

\* ------------------------------------------------------------ dict model
Keys(d) == {d[i].key : i \in DOMAIN d}

Get(d, k) == d[CHOOSE i \in DOMAIN d : d[i].key = k].value

\* d[k] = v: a new key is appended, an existing key keeps its position.
DictSet(d, k, v) ==
    IF k \in Keys(d)
    THEN [i \in DOMAIN d |-> IF d[i].key = k THEN [key |-> k, value |-> v] ELSE d[i]]
    ELSE Append(d, [key |-> k, value |-> v])

RECURSIVE SumLens(_)
SumLens(d) == IF d = <<>> THEN 0 ELSE Len(Head(d).value) + SumLens(Tail(d))

\* ------------------------------------------------------------- load_data
EmptyDataError == "EmptyDataError"
FileNotFoundError == "FileNotFoundError"
NotLoadedError == "ValueError: No data loaded. Please call load_data() first."
SampleError == "ValueError: Sample larger than population or is negative"
ZeroDivisionError == "ZeroDivisionError"
NoAssignmentError == "ValueError: No assignments made. Please call assign_ballots() first."
OSError == "OSError"

\* A faulty load_data: a reload also clears the held assignment.
load_data_clearing(self, csv, txt) ==
    IF ~csv.exists THEN [self |-> self, status |-> FileNotFoundError]
    ELSE IF csv.rows = <<>> THEN [self |-> self, status |-> EmptyDataError]
    ELSE LET read == [self EXCEPT !.ballot_ids = csv.rows, !.assignment_results = <<>>] IN
         IF ~txt.exists THEN [self |-> read, status |-> FileNotFoundError]
         ELSE [self |-> [read EXCEPT !.verifiers = StripLines(txt.lines)],
               status |-> "ok"]

load_data(self, csv, txt) ==
    IF ~csv.exists THEN [self |-> self, status |-> FileNotFoundError]
    ELSE IF csv.rows = <<>> THEN [self |-> self, status |-> EmptyDataError]
    ELSE LET read == [self EXCEPT !.ballot_ids = csv.rows] IN
         IF ~txt.exists THEN [self |-> read, status |-> FileNotFoundError]
         ELSE [self |-> [read EXCEPT !.verifiers = StripLines(txt.lines)],
               status |-> "ok"]

\* -------------------------------------------------------- assign_ballots
Injections(k, n) ==
    {f \in [1..k -> 1..n] : \A i, j \in 1..k : i # j => f[i] # f[j]}

\* A faulty random_sample: k positions drawn with replacement.
random_choices(population, k) ==
    {[i \in 1..k |-> population[f[i]]] : f \in [1..k -> 1..Len(population)]}

\* random.sample(population, k): k positions drawn without replacement.
random_sample(population, k) ==
    {[i \in 1..k |-> population[f[i]]] : f \in Injections(k, Len(population))}

\* random.shuffle(x): any rearrangement of x.
random_shuffle(x) ==
    {[i \in 1..Len(x) |-> x[f[i]]] : f \in Injections(Len(x), Len(x))}

\* A faulty NotLoaded: "and" for "or".
NotLoadedBoth(ids, vs) == ids = <<>> /\ vs = <<>>

NotLoaded(ids, vs) == ids = <<>> \/ vs = <<>>

OverRequest(ballots_to_assign, available) == ballots_to_assign > available

\* A faulty Extra: "<=" for "<".
ExtraOffByOne(i, remainder) == IF i <= remainder THEN 1 ELSE 0

Extra(i, remainder) == IF i < remainder THEN 1 ELSE 0

\* The loop over enumerate(self.verifiers); i is 0-based as in the code.
RECURSIVE AssignLoop(_, _, _, _, _, _)
AssignLoop(i, start_index, assignment, vs, selected_ballots, ballots_to_assign) ==
    IF i >= Len(vs) THEN assignment
    ELSE LET ballots_per_verifier == ballots_to_assign \div Len(vs)
             remainder == ballots_to_assign % Len(vs)
             end_index == start_index + ballots_per_verifier + Extra(i, remainder)
         IN  AssignLoop(i + 1, end_index,
                        DictSet(assignment, vs[i + 1],
                                Slice(selected_ballots, start_index, end_index)),
                        vs, selected_ballots, ballots_to_assign)

AssignRaised(self, ballots_to_assign, status, warned, sampled) ==
    [self |-> self, status |-> status, requested |-> ballots_to_assign,
     warned |-> warned, count |-> 0, sampled |-> sampled, returned |-> <<>>]

\* Every outcome of assign_ballots(ballots_to_assign), over the random draws.
assign_ballots(self, ballots_to_assign) ==
    IF NotLoaded(self.ballot_ids, self.verifiers)
    THEN {AssignRaised(self, ballots_to_assign, NotLoadedError, FALSE, FALSE)}
    ELSE
    LET warned == OverRequest(ballots_to_assign, Len(self.ballot_ids))
        count == IF warned THEN Len(self.ballot_ids) ELSE ballots_to_assign
    IN  IF count < 0 \/ count > Len(self.ballot_ids)
        THEN {AssignRaised(self, ballots_to_assign, SampleError, warned, FALSE)}
        ELSE IF self.verifiers = <<>>
        THEN {AssignRaised(self, ballots_to_assign, ZeroDivisionError, warned, TRUE)}
        ELSE
        {LET assignment == AssignLoop(0, 0, <<>>, self.verifiers, selected_ballots, count)
         IN  [self |-> [self EXCEPT !.assignment_results = assignment],
              status |-> "ok", requested |-> ballots_to_assign, warned |-> warned,
              count |-> count, sampled |-> TRUE,
              returned |-> <<assignment>>]
         : selected_ballots \in
             UNION {random_shuffle(s) : s \in random_sample(self.ballot_ids, count)}}

\* ---------------------------------------------------- generate_csv_files
\* A faulty NoAssignments: the check is missing.
NoAssignmentsUnchecked(assignment) == FALSE

NoAssignments(assignment) == assignment = <<>>

\* A faulty Row: ['0'] * len(self.header).
RowTooLong(ballot_id) == <<str(ballot_id)>> \o [c \in 1..Len(header) |-> "0"]

\* [ballot_id] + ['0'] * (len(self.header) - 1)
Row(ballot_id) == <<str(ballot_id)>> \o [c \in 1..(Len(header) - 1) |-> "0"]

FileRows(ballots) == <<header>> \o [j \in 1..Len(ballots) |-> Row(ballots[j])]

\* open(filename, 'w') creates the file or replaces what it held.
WriteFile(files, path, rows) ==
    [p \in DOMAIN files \cup {path} |-> IF p = path THEN rows ELSE files[p]]

\* The loop over self.assignment_results.items(), up to item number upto.
RECURSIVE WriteLoop(_, _, _, _)
WriteLoop(k, upto, items, files) ==
    IF k > upto THEN files
    ELSE WriteLoop(k + 1, upto, items,
                   WriteFile(files, filename(OutputDirectory, items[k].key),
                             FileRows(items[k].value)))

\* io_fail = 0: every open() succeeds; io_fail = k: the k-th open() raises.
generate_csv_files(self, fs, io_fail) ==
    IF NoAssignments(self.assignment_results)
    THEN [fs |-> fs, status |-> NoAssignmentError, written |-> <<>>]
    ELSE LET items == self.assignment_results
             done == IF io_fail = 0 THEN Len(items) ELSE io_fail - 1
         IN  [fs |-> [dir_exists |-> TRUE, disk |-> WriteLoop(1, done, items, fs.disk)],
              status |-> IF io_fail = 0 THEN "ok" ELSE OSError,
              written |-> [k \in 1..done |->
                              filename(OutputDirectory, items[k].key)]]

\* ------------------------------------------------ get_assignment_summary
RECURSIVE Join(_)
Join(texts) ==
    IF texts = <<>> THEN <<>>
    ELSE IF Len(texts) = 1 THEN texts
    ELSE <<Head(texts), ", ">> \o Join(Tail(texts))

get_assignment_summary(self) ==
    [k \in DOMAIN self.assignment_results |->
        LET item == self.assignment_results[k] IN
        [Verifier |-> item.key,
         Ballots_Assigned |-> Len(item.value),
         Ballot_List |-> Join([j \in DOMAIN item.value |-> str(item.value[j])])]]

RECURSIVE Total(_)
Total(summary) ==
    IF summary = <<>> THEN 0 ELSE Head(summary).Ballots_Assigned + Total(Tail(summary))

\* ---------------------------------------------------------------- actions
\* Requested counts tried: negative, zero, up to one more than the identifier
\* file holds (a larger request is clamped like that one).
Counts == -1..(Len(csv_file.rows) + 1)

Stages == <<"load_data", "assign_ballots", "generate_csv_files", "get_assignment_summary">>

NoCall == [op |-> "none", status |-> "ok", requested |-> 0, warned |-> FALSE,
           count |-> 0, sampled |-> FALSE, returned |-> <<>>,
           written |-> <<>>, summary |-> <<>>]

NoRun == [pc |-> "idle", stages |-> <<>>, count |-> 0, error |-> "ok", total |-> 0]

Init ==
    /\ csv_file \in CsvFiles
    /\ txt_file \in TxtFiles
    /\ ballot_ids = <<>>
    /\ verifiers = <<>>
    /\ assignment_results = <<>>
    /\ dir_exists = FALSE
    /\ disk = <<>>
    /\ last = NoCall
    /\ run = NoRun
    /\ calls = 0

\* No run_complete_assignment is in progress: the caller may make a call. A
\* direct call finds no activation of run_complete_assignment (run' = NoRun).
Idle == run.pc \in {"idle", "returned", "raised"}

\* A faulty NextStage: a stage's exception is swallowed.
NextStageSwallowing(stage, status) ==
    IF stage = "get_assignment_summary" THEN "returned"
    ELSE IF stage = "load_data" THEN "assign_ballots"
    ELSE IF stage = "assign_ballots" THEN "generate_csv_files"
    ELSE "get_assignment_summary"

\* Where run_complete_assignment goes after a stage: an exception ends the run.
NextStage(stage, status) ==
    IF status # "ok" THEN "raised"
    ELSE IF stage = Stages[Len(Stages)] THEN "returned"
    ELSE Stages[(CHOOSE k \in DOMAIN Stages : Stages[k] = stage) + 1]

Advance(stage, status) ==
    [run EXCEPT !.pc = NextStage(stage, status),
                !.stages = Append(@, [stage |-> stage, status |-> status]),
                !.error = status]

DoLoad ==
    LET r == load_data(Self, csv_file, txt_file) IN
    /\ ballot_ids' = r.self.ballot_ids
    /\ verifiers' = r.self.verifiers
    /\ assignment_results' = r.self.assignment_results
    /\ last' = [NoCall EXCEPT !.op = "load_data", !.status = r.status]
    /\ UNCHANGED <<csv_file, txt_file, dir_exists, disk>>

DoAssign(ballots_to_assign) ==
    \E r \in assign_ballots(Self, ballots_to_assign) :
        /\ ballot_ids' = r.self.ballot_ids
        /\ verifiers' = r.self.verifiers
        /\ assignment_results' = r.self.assignment_results
        /\ last' = [NoCall EXCEPT !.op = "assign_ballots", !.status = r.status,
                                  !.requested = r.requested, !.warned = r.warned,
                                  !.count = r.count, !.sampled = r.sampled,
                                  !.returned = r.returned]
        /\ UNCHANGED <<csv_file, txt_file, dir_exists, disk>>

DoExport ==
    \E io_fail \in 0..Len(assignment_results) :
        LET r == generate_csv_files(Self, Fs, io_fail) IN
        /\ dir_exists' = r.fs.dir_exists
        /\ disk' = r.fs.disk
        /\ last' = [NoCall EXCEPT !.op = "generate_csv_files", !.status = r.status,
                                  !.written = r.written]
        /\ UNCHANGED <<csv_file, txt_file, ballot_ids, verifiers, assignment_results>>

DoSummary ==
    /\ last' = [NoCall EXCEPT !.op = "get_assignment_summary",
                              !.summary = get_assignment_summary(Self)]
    /\ UNCHANGED <<csv_file, txt_file, ballot_ids, verifiers, assignment_results,
                   dir_exists, disk>>

Call == Idle /\ calls < MaxCalls /\ calls' = calls + 1

LoadData == Call /\ DoLoad /\ run' = NoRun

AssignBallots == Call /\ (\E n \in Counts : DoAssign(n)) /\ run' = NoRun

GenerateCsvFiles == Call /\ DoExport /\ run' = NoRun

GetAssignmentSummary == Call /\ DoSummary /\ run' = NoRun

\* run_complete_assignment(ballots_to_assign): entered, then one stage per step.
RunStart ==
    /\ Call
    /\ \E n \in Counts : run' = [NoRun EXCEPT !.pc = Stages[1], !.count = n]
    /\ UNCHANGED <<csv_file, txt_file, ballot_ids, verifiers, assignment_results,
                   dir_exists, disk, last>>

RunLoad ==
    /\ run.pc = "load_data"
    /\ DoLoad
    /\ run' = Advance("load_data", last'.status)
    /\ UNCHANGED calls

RunAssign ==
    /\ run.pc = "assign_ballots"
    /\ DoAssign(run.count)
    /\ run' = Advance("assign_ballots", last'.status)
    /\ UNCHANGED calls

RunExport ==
    /\ run.pc = "generate_csv_files"
    /\ DoExport
    /\ run' = Advance("generate_csv_files", last'.status)
    /\ UNCHANGED calls

RunSummary ==
    /\ run.pc = "get_assignment_summary"
    /\ DoSummary
    /\ run' = [Advance("get_assignment_summary", last'.status)
                  EXCEPT !.total = Total(last'.summary)]
    /\ UNCHANGED calls

Next ==
    \/ LoadData
    \/ AssignBallots
    \/ GenerateCsvFiles
    \/ GetAssignmentSummary
    \/ RunStart
    \/ RunLoad
    \/ RunAssign
    \/ RunExport
    \/ RunSummary

Spec == Init /\ [][Next]_vars

\* ----------------------------------------------------------------- claims
AssignOk == last.op = "assign_ballots" /\ last.status = "ok"

ExportOk == last.op = "generate_csv_files" /\ last.status = "ok"

Range(f) == {f[i] : i \in DOMAIN f}

\* How often identifier b occurs in a list, and across all lists of a dict.
Occurrences(list, b) == Cardinality({j \in DOMAIN list : list[j] = b})

RECURSIVE OccurrencesIn(_, _)
OccurrencesIn(d, b) ==
    IF d = <<>> THEN 0 ELSE Occurrences(Head(d).value, b) + OccurrencesIn(Tail(d), b)

\* The places (item, position) of a dict's lists.
Places(d) == UNION {{<<k, j>> : j \in DOMAIN d[k].value} : k \in DOMAIN d}

\* The file at path holds the header and one full-width row per identifier.
FileHolds(path, ballots) ==
    /\ path \in DOMAIN disk
    /\ Len(disk[path]) = 1 + Len(ballots)
    /\ disk[path][1] = header
    /\ \A j \in DOMAIN ballots :
          LET row == disk[path][j + 1] IN
          /\ Len(row) = Len(header)
          /\ row[1] = ToString(ballots[j])
          /\ \A c \in 2..Len(row) : row[c] = "0"

\* C1: after a successful assign_ballots with requested count >= 0 the lists of
\* the returned assignment hold min(requested, loaded identifiers) identifiers
\* in total, and that is the total a completed run_complete_assignment prints.
C1_TotalIsClampedCount ==
    /\ (AssignOk /\ last.requested >= 0) =>
           SumLens(last.returned[1]) = Min(last.requested, Len(ballot_ids))
    /\ run.pc = "returned" => run.total = Min(run.count, Len(ballot_ids))

\* C2 (as stated): after a successful assign_ballots every assigned identifier
\* is a loaded identifier and no identifier occurs at two places of the lists.
C2_NoIdentifierTwice ==
    AssignOk =>
        /\ \A pl \in Places(assignment_results) :
               assignment_results[pl[1]].value[pl[2]] \in Range(ballot_ids)
        /\ \A p1, p2 \in Places(assignment_results) :
               p1 # p2 => assignment_results[p1[1]].value[p1[2]]
                            # assignment_results[p2[1]].value[p2[2]]

\* C2 (amended): after a successful assign_ballots every assigned identifier is
\* a loaded identifier and occurs across all lists at most as often as it occurs
\* in the loaded identifier list.
C2_NoMoreOftenThanLoaded ==
    AssignOk =>
        /\ \A pl \in Places(assignment_results) :
               assignment_results[pl[1]].value[pl[2]] \in Range(ballot_ids)
        /\ \A b \in Range(ballot_ids) :
               OccurrencesIn(assignment_results, b) <= Occurrences(ballot_ids, b)

\* C2 witness: identifiers were assigned to two different recipients.
C2_Witness ==
    /\ AssignOk
    /\ Len(assignment_results) >= 2
    /\ \A k \in DOMAIN assignment_results : assignment_results[k].value # <<>>

\* C3: after a successful assign_ballots with clamped count c over n recipients
\* the recipient at load-order index i holds c \div n + 1 identifiers when
\* i < c % n and c \div n identifiers otherwise.
C3_SizesByLoadOrder ==
    AssignOk =>
        LET c == last.count
            n == Len(verifiers)
        IN  \A i \in 0..(n - 1) :
                Len(Get(assignment_results, verifiers[i + 1]))
                    = (c \div n) + (IF i < c % n THEN 1 ELSE 0)

\* C4: any two recipients of the held assignment hold numbers of identifiers
\* that differ by at most one.
C4_SizesDifferByAtMostOne ==
    \A k1, k2 \in DOMAIN assignment_results :
        Len(assignment_results[k1].value) - Len(assignment_results[k2].value) <= 1

\* C4 witness: an assignment in which one recipient holds one more than another.
C4_Witness ==
    /\ AssignOk
    /\ \E k1, k2 \in DOMAIN assignment_results :
           Len(assignment_results[k1].value) = Len(assignment_results[k2].value) + 1

\* C5: an assign_ballots call on loaded data warns exactly when the requested
\* count exceeds the loaded identifiers; it then clamps the count, succeeds and
\* assigns every loaded identifier; otherwise the count is used unchanged.
C5_WarnExactlyOnOverRequest ==
    (last.op = "assign_ballots" /\ last.status # NotLoadedError) =>
        /\ last.warned <=> last.requested > Len(ballot_ids)
        /\ last.warned =>
               /\ last.status = "ok"
               /\ last.count = Len(ballot_ids)
               /\ \A b \in Range(ballot_ids) : OccurrencesIn(assignment_results, b) >= 1
        /\ (~last.warned /\ last.status = "ok") => last.count = last.requested

C7_NoExportBeforeAssign ==
    /\ [](/\ (last.op = "generate_csv_files" /\ assignment_results = <<>>) =>
                 (last.status = NoAssignmentError /\ last.written = <<>>)
          /\ assignment_results = <<>> => (~dir_exists /\ DOMAIN disk = {}))
    /\ [][(assignment_results = <<>> /\ assignment_results' # <<>>) =>
              (last'.op = "assign_ballots" /\ last'.status = "ok")]_vars

\* C7 witness: data is loaded, nothing is assigned, and generate_csv_files was
\* called.
C7_Witness ==
    /\ last.op = "generate_csv_files"
    /\ ballot_ids # <<>>
    /\ verifiers # <<>>
    /\ assignment_results = <<>>

\* C8 (as stated): after generate_csv_files completes, the file at every
\* recipient's path holds the header and one row per identifier of that
\* recipient, in order, identifier first and "0" in every other column.
C8_EveryRecipientsFile ==
    ExportOk =>
        \A k \in DOMAIN assignment_results :
            FileHolds(filename(OutputDirectory, assignment_results[k].key),
                      assignment_results[k].value)

\* C8 (amended): the same, for every recipient that no later recipient of the
\* assignment shares its path with.
C8_LastRecipientsFile ==
    ExportOk =>
        \A k \in DOMAIN assignment_results :
            (\A k2 \in DOMAIN assignment_results :
                 k2 > k => filename(OutputDirectory, assignment_results[k2].key)
                             # filename(OutputDirectory, assignment_results[k].key))
            => FileHolds(filename(OutputDirectory, assignment_results[k].key),
                         assignment_results[k].value)

\* C8 witness: an export of two recipients with different paths, each with rows.
C8_Witness ==
    /\ ExportOk
    /\ Cardinality(DOMAIN disk) >= 2
    /\ \A k \in DOMAIN assignment_results : assignment_results[k].value # <<>>

\* C9: run_complete_assignment runs its stages in the order load_data,
\* assign_ballots, generate_csv_files, get_assignment_summary; a stage that
\* raises is the last stage run and its error is the run's; the files an export
\* wrote before it failed are on disk, and no step removes a file.
C9_StagesInOrder ==
    /\ [](/\ Len(run.stages) <= Len(Stages)
          /\ \A k \in DOMAIN run.stages :
                /\ run.stages[k].stage = Stages[k]
                /\ k < Len(run.stages) => run.stages[k].status = "ok"
          /\ run.pc \in Range(Stages) => run.pc = Stages[Len(run.stages) + 1]
          /\ run.pc = "returned" =>
                (Len(run.stages) = Len(Stages) /\ run.stages[Len(Stages)].status = "ok")
          /\ run.pc = "raised" =>
                /\ run.stages # <<>>
                /\ run.stages[Len(run.stages)].status # "ok"
                /\ run.error = run.stages[Len(run.stages)].status
                /\ last.op = run.stages[Len(run.stages)].stage
                /\ \A p \in Range(last.written) : p \in DOMAIN disk)
    /\ [][DOMAIN disk \subseteq DOMAIN disk']_vars

\* C9 witness: a run whose export raised after it had written a file.
C9_Witness ==
    /\ run.pc = "raised"
    /\ last.op = "generate_csv_files"
    /\ last.written # <<>>

\* C10: a step changes the held assignment only if it is a successful
\* assign_ballots, and then the held assignment is the returned one.
C10_OnlyAssignChangesAssignment ==
    [][IF last'.op = "assign_ballots" /\ last'.status = "ok"
       THEN assignment_results' = last'.returned[1]
       ELSE assignment_results' = assignment_results]_vars

\* C10 witness: an assign_ballots call failed and an earlier assignment is held.
C10_Witness ==
    /\ last.op = "assign_ballots"
    /\ last.status # "ok"
    /\ assignment_results # <<>>

====
